---- MODULE Spec2Model ----
(***************************************************************************)
(* Anomaly detection and safety scoring back end (controllers/             *)
(* anomalyController, controllers/geofenceController and the               *)
(* updateSafetyScore service) over its Supabase tables.                    *)
(*                                                                         *)
(* Scores and deltas are held in half points (UnitsPerPoint = 2): the      *)
(* controller divides a deduction by -2 in floating point, so 2.5 points   *)
(* is a value the program stores; in half points every value is integral.  *)
(***************************************************************************)
EXTENDS Integers, Sequences, FiniteSets, TLC

\* ------------------------------------------------------------------ bounds
MaxRequests == 3

\* --------------------------------------------------------------- constants
UnitsPerPoint == 2
MinScore == 0
MaxScore == 100 * UnitsPerPoint
DefaultScore == 100 * UnitsPerPoint
Null == <<>>
Undefined == "undefined"

Subjects == {"t1", "t2"}

Max(a, b) == IF a >= b THEN a ELSE b
Min(a, b) == IF a <= b THEN a ELSE b

\* ------------------------------------------------------ store (supabase-js)
\* .single(): exactly one matching row gives {data: row, error: null}; no row
\* or several rows give {data: null, error: PGRST116}.  data is held as a
\* sequence: <<row>> for the row, Null (the empty sequence) for null.
single(rows) ==
    IF Len(rows) = 1
    THEN [data |-> rows, error |-> FALSE]
    ELSE [data |-> Null, error |-> TRUE]

\* tourist_profiles: score maps each subject that has a profile row to the
\* row's safety_score.  The rows .eq('dtid', dtid) selects:
profileRows(score, dtid) ==
    IF dtid \in DOMAIN score THEN <<[safety_score |-> score[dtid]]>> ELSE <<>>

\* ----------------------------------------------------- safety score ledger
\* The clamp without its lower bound.
clampScore_noFloor(x) == Min(MaxScore, x)

\* Math.max(0, Math.min(100, x))
clampScore(x) == Max(MinScore, Min(MaxScore, x))

\* updateSafetyScore(dtid, delta, reason) on the store db; fail names the
\* store call that returns an error during this call ("none": no failure).
\* A ledger whose profile update has no dtid filter: it writes every profile.
updateSafetyScore_allRows(db, dtid, delta, reason, fail) ==
    LET fetched == single(profileRows(db.score, dtid))
        newScore == clampScore((IF fetched.data = Null THEN DefaultScore
                                ELSE fetched.data[1].safety_score) + delta)
    IN  IF fetched.error \/ fail \in {"profile_select", "profile_update"}
        THEN [db |-> db, success |-> FALSE]
        ELSE [db |-> [db EXCEPT
                        !.score = [s \in DOMAIN db.score |-> newScore],
                        !.events = IF fail = "event_insert" THEN @
                                   ELSE Append(@, [dtid |-> dtid, delta |-> delta,
                                                   reason |-> reason,
                                                   resulting_score |-> newScore])],
              success |-> TRUE, safety_score |-> newScore]

updateSafetyScore(db, dtid, delta, reason, fail) ==
    LET fetched == single(profileRows(db.score, dtid))
        fetchError == fetched.error \/ fail = "profile_select"
        currentScore == IF fetched.data = Null THEN DefaultScore
                        ELSE fetched.data[1].safety_score
        newScore == clampScore(currentScore + delta)
        event == [dtid |-> dtid, delta |-> delta, reason |-> reason,
                  resulting_score |-> newScore]
    IN  IF fetchError \/ fail = "profile_update"
        THEN [db |-> db, success |-> FALSE]
        ELSE [db |-> [db EXCEPT
                        !.score[dtid] = newScore,
                        !.events = IF fail = "event_insert" THEN @
                                   ELSE Append(@, event)],
              success |-> TRUE, safety_score |-> newScore]

\* ------------------------------------------------------ severity -> delta
\* severityScores[severity] || -10
\* A severity table whose default is the low deduction.
getSeverityScore_defaultLow(severity) ==
    CASE severity = "low" -> -5 * UnitsPerPoint
      [] severity = "medium" -> -10 * UnitsPerPoint
      [] severity = "high" -> -20 * UnitsPerPoint
      [] severity = "critical" -> -30 * UnitsPerPoint
      [] OTHER -> -5 * UnitsPerPoint

getSeverityScore(severity) ==
    CASE severity = "low" -> -5 * UnitsPerPoint
      [] severity = "medium" -> -10 * UnitsPerPoint
      [] severity = "high" -> -20 * UnitsPerPoint
      [] severity = "critical" -> -30 * UnitsPerPoint
      [] OTHER -> -10 * UnitsPerPoint

\* The restoration giving back the whole deduction.
restorePointsFor_whole(severity) == 0 - getSeverityScore(severity)

\* getSeverityScore(anomaly.severity) / -2: "Restore half the deducted points".
restorePointsFor(severity) == (0 - getSeverityScore(severity)) \div 2

\* ------------------------------------------------------------ anomalies
\* A row of the anomalies table.  id is the position of the row (the table
\* only grows); status defaults to active and resolved_at to null (0) on
\* insert.  description, latitude and longitude, which nothing reads back,
\* are left out.
newAnomaly(table, dtid, type, severity, metadata) ==
    [id |-> Len(table) + 1, dtid |-> dtid, anomaly_type |-> type,
     severity |-> severity, status |-> "active", resolved_at |-> 0,
     metadata |-> metadata]

\* .from('anomalies').select('id').eq('dtid').eq('anomaly_type').eq('status','active')
activeOfType(table, dtid, type) ==
    SelectSeq(table, LAMBDA r : r.dtid = dtid /\ r.anomaly_type = type
                                /\ r.status = "active")

\* One ledger invocation, as the caller sees it.
ledgerCall(dtid, delta, reason, result) ==
    [dtid |-> dtid, delta |-> delta, reason |-> reason, success |-> result.success]

\* checkAnomalies, "Store new anomalies in database": the loop over the
\* detected signals.  acc = [db, calls]: the store and the ledger calls made.
RECURSIVE storeNewAnomalies(_, _, _, _)
storeNewAnomalies(acc, dtid, signals, fail) ==
    IF signals = <<>> THEN acc
    ELSE
      LET anomaly == Head(signals)
          found == single(activeOfType(acc.db.anomalies, dtid, anomaly.type))
          existing == IF fail = "anomaly_select" THEN Null ELSE found.data
      IN  IF existing # Null
          THEN storeNewAnomalies(acc, dtid, Tail(signals), fail)
          ELSE
            LET row == newAnomaly(acc.db.anomalies, dtid, anomaly.type,
                                  anomaly.severity, anomaly.details)
                inserted == IF fail = "anomaly_insert" THEN acc.db
                            ELSE [acc.db EXCEPT !.anomalies = Append(@, row)]
                scoreDeduction == getSeverityScore(anomaly.severity)
                updated == updateSafetyScore(inserted, dtid, scoreDeduction,
                                             anomaly.type, fail)
            IN  storeNewAnomalies(
                  [db |-> updated.db,
                   calls |-> Append(acc.calls,
                               ledgerCall(dtid, scoreDeduction, anomaly.type, updated))],
                  dtid, Tail(signals), fail)

\* JSON.stringify drops a key whose value is undefined, so the update writes
\* {...metadata, resolution_notes: notes} with the key only when notes is given.
mergeNotes(metadata, notes) ==
    LET keys == IF notes = Undefined THEN DOMAIN metadata \ {"resolution_notes"}
                ELSE DOMAIN metadata \cup {"resolution_notes"}
    IN  [k \in keys |-> IF k = "resolution_notes" THEN notes ELSE metadata[k]]

\* The response of a handler: the HTTP code, the body's status word, the rows
\* it returns and the ledger calls the handler made.
response(http, word, rows, calls) ==
    [http |-> http, status |-> word, data |-> rows, calls |-> calls]

Reverse(s) == [i \in 1..Len(s) |-> s[Len(s) + 1 - i]]

\* checkAnomalies: GET /anomalies/:dtid.  hasLocations: the locations query
\* returned rows; signals: the detector results with isAnomaly, in the order
\* the handler pushes them.  fail = "detector_throw": one of the detector
\* calls (or the awaited zone lookup) throws; the handler's only try block
\* encloses them all, so control leaves for the catch before the store loop.
\* A pass that runs the store loop whether or not there are locations.
checkAnomalies_noWindowCheck(db, dtid, hasLocations, signals, fail) ==
    LET stored == storeNewAnomalies([db |-> db, calls |-> <<>>], dtid, signals, fail)
    IN  [db |-> stored.db, res |-> response(200, "normal", <<>>, stored.calls)]

checkAnomalies(db, dtid, hasLocations, signals, fail) ==
    IF fail = "locations_select"
    THEN [db |-> db, res |-> response(500, "error", <<>>, <<>>)]
    ELSE IF ~hasLocations
    THEN [db |-> db, res |-> response(200, "no_data", <<>>, <<>>)]
    ELSE IF fail = "detector_throw"
    THEN [db |-> db, res |-> response(500, "error", <<>>, <<>>)]
    ELSE
      LET stored == storeNewAnomalies([db |-> db, calls |-> <<>>], dtid, signals, fail)
          activeAnomalies ==
              Reverse(SelectSeq(stored.db.anomalies,
                                LAMBDA r : r.dtid = dtid /\ r.status = "active"))
      IN  IF fail = "active_select"
          THEN [db |-> stored.db, res |-> response(500, "error", <<>>, stored.calls)]
          ELSE [db |-> stored.db,
                res |-> response(200,
                          IF Len(activeAnomalies) > 0 THEN "anomalies_detected"
                          ELSE "normal",
                          activeAnomalies, stored.calls)]

\* A status check that lets every status through.
validStatus_any(status) == TRUE

\* ['resolved', 'false_positive'].includes(status)
validStatus(status) == status \in {"resolved", "false_positive"}

\* resolveAnomaly: PUT /anomalies/:anomalyId/resolve.  status is the body's
\* status (Undefined when absent: the default 'resolved' applies), now the
\* time new Date() reads.
\* A resolution that restores the score before it reads or writes the anomaly.
resolveAnomaly_restoreFirst(db, anomalyId, bodyStatus, notes, now, fail) ==
    IF anomalyId \in 1..Len(db.anomalies)
    THEN LET anomaly == db.anomalies[anomalyId]
             restorePoints == restorePointsFor(anomaly.severity)
             updated == updateSafetyScore(db, anomaly.dtid, restorePoints,
                                          "anomaly_resolved", "none")
             calls == <<ledgerCall(anomaly.dtid, restorePoints,
                                   "anomaly_resolved", updated)>>
         IN  [db |-> updated.db,
              res |-> IF fail = "none" THEN response(200, "resolved", <<anomaly>>, calls)
                      ELSE response(500, "error", <<>>, calls)]
    ELSE [db |-> db, res |-> response(500, "error", <<>>, <<>>)]

resolveAnomaly(db, anomalyId, bodyStatus, notes, now, fail) ==
    LET status == IF bodyStatus = Undefined THEN "resolved" ELSE bodyStatus
        fetched == single(SelectSeq(db.anomalies, LAMBDA r : r.id = anomalyId))
        fetchError == fetched.error \/ fail = "anomaly_select"
    IN  IF ~validStatus(status)
        THEN [db |-> db, res |-> response(400, "invalid_status", <<>>, <<>>)]
        ELSE IF fetchError
        THEN [db |-> db, res |-> response(500, "error", <<>>, <<>>)]
        ELSE IF fetched.data = Null
        THEN [db |-> db, res |-> response(404, "not_found", <<>>, <<>>)]
        ELSE IF fail = "anomaly_update"
        THEN [db |-> db, res |-> response(500, "error", <<>>, <<>>)]
        ELSE
          LET currentAnomaly == fetched.data[1]
              anomaly == [db.anomalies[anomalyId] EXCEPT
                            !.status = status,
                            !.resolved_at = now,
                            !.metadata = mergeNotes(currentAnomaly.metadata, notes)]
              written == [db EXCEPT !.anomalies[anomalyId] = anomaly]
              restorePoints == restorePointsFor(anomaly.severity)
              updated == updateSafetyScore(written, anomaly.dtid, restorePoints,
                                           "anomaly_resolved", fail)
          IN  IF status = "resolved"
              THEN [db |-> updated.db,
                    res |-> response(200, status, <<anomaly>>,
                              <<ledgerCall(anomaly.dtid, restorePoints,
                                           "anomaly_resolved", updated)>>)]
              ELSE [db |-> written, res |-> response(200, status, <<anomaly>>, <<>>)]

\* ------------------------------------------------------------- geofencing
\* Coordinates are in thousandths of a degree and all on one meridian, where
\* dLon = 0, a = sin^2(dLat/2), c = |dLat| and the distance is R * |dLat|:
\* 6371000 * pi / 180 = 111195 m per degree, here in whole meters.
MetersPerDegree == 111195
Abs(x) == IF x >= 0 THEN x ELSE 0 - x
haversineDistanceMeters(lat1, lon1, lat2, lon2) ==
    LET dLat == Abs(lat2 - lat1)
    IN  (MetersPerDegree \div 1000) * dLat
          + ((MetersPerDegree % 1000) * dLat) \div 1000

\* A breach test that leaves the edge of the zone outside.
isInsideGeofence_strict(currentLat, currentLong, zoneLat, zoneLong, radiusMeters) ==
    haversineDistanceMeters(currentLat, currentLong, zoneLat, zoneLong) < radiusMeters

isInsideGeofence(currentLat, currentLong, zoneLat, zoneLong, radiusMeters) ==
    haversineDistanceMeters(currentLat, currentLong, zoneLat, zoneLong) <= radiusMeters

\* Array.prototype.sort((a, b) => a.distance - b.distance): stable, ascending.
RECURSIVE insertByDistance(_, _)
insertByDistance(sorted, z) ==
    IF sorted = <<>> THEN <<z>>
    ELSE IF Head(sorted).distance <= z.distance
         THEN <<Head(sorted)>> \o insertByDistance(Tail(sorted), z)
         ELSE <<z>> \o sorted
RECURSIVE sortByDistance(_)
sortByDistance(zs) ==
    IF zs = <<>> THEN <<>>
    ELSE insertByDistance(sortByDistance(SubSeq(zs, 1, Len(zs) - 1)), zs[Len(zs)])

withDistance(zone, distance) ==
    [k \in DOMAIN zone \cup {"distance"} |->
        IF k = "distance" THEN distance ELSE zone[k]]

\* A ranking that filters by distance and keeps the catalog order.
findNearestZones_unsorted(currentLat, currentLong, zones, withinMeters) ==
    SelectSeq([i \in 1..Len(zones) |->
                 withDistance(zones[i],
                   haversineDistanceMeters(currentLat, currentLong,
                                           zones[i].latitude, zones[i].longitude))],
              LAMBDA z : z.distance <= withinMeters)

findNearestZones(currentLat, currentLong, zones, withinMeters) ==
    LET measured == [i \in 1..Len(zones) |->
                       withDistance(zones[i],
                         haversineDistanceMeters(currentLat, currentLong,
                                                 zones[i].latitude, zones[i].longitude))]
    IN  sortByDistance(SelectSeq(measured, LAMBDA z : z.distance <= withinMeters))

\* Boolean(v) of a column value (held as the text of the JS value).
Boolean(v) == v \notin {"false", "null", "undefined", "0", ""}

\* The active filter of checkGeofence and getRestrictedZones.
isActiveZone(zone) ==
    IF "is_active" \in DOMAIN zone THEN Boolean(zone.is_active)
    ELSE IF "active" \in DOMAIN zone THEN Boolean(zone.active)
    ELSE TRUE

\* riskOrder = { low: 1, medium: 2, high: 3, critical: 4 }; any other level
\* has no rank (undefined), and no comparison with undefined is true.
hasRank(level) == level \in {"low", "medium", "high", "critical"}
riskOrder(level) ==
    CASE level = "low" -> 1 [] level = "medium" -> 2
      [] level = "high" -> 3 [] level = "critical" -> 4 [] OTHER -> 0

\* breachedZones.reduce((prev, current) => rank(current) > rank(prev) ? current : prev)
RECURSIVE reduceHighestRisk(_, _)
reduceHighestRisk(prev, rest) ==
    IF rest = <<>> THEN prev
    ELSE LET current == Head(rest)
             greater == hasRank(current.risk_level) /\ hasRank(prev.risk_level)
                        /\ riskOrder(current.risk_level) > riskOrder(prev.risk_level)
         IN  reduceHighestRisk(IF greater THEN current ELSE prev, Tail(rest))
\* The dominant zone taken as the first breached zone.
highestRiskZoneOf_first(breachedZones) == Head(breachedZones)

highestRiskZoneOf(breachedZones) ==
    reduceHighestRisk(Head(breachedZones), Tail(breachedZones))

\* Math.max(...breachedZones.map(rank))
RECURSIVE maxRank(_)
maxRank(zs) ==
    IF zs = <<>> THEN 0 ELSE Max(riskOrder(Head(zs).risk_level), maxRank(Tail(zs)))

\* !body.field of a request body held as a record: the key is absent, or its
\* value is 0 or the empty string.
falsyNumber(body, k) == k \notin DOMAIN body \/ body[k] = 0
falsyString(body, k) == k \notin DOMAIN body \/ body[k] = ""

\* checkGeofence: POST /geofence/check.  zonesRaw: the rows of restricted_zones.
checkGeofence(db, body, zonesRaw, fail) ==
    IF falsyString(body, "dtid") \/ falsyNumber(body, "currentLat")
       \/ falsyNumber(body, "currentLong")
    THEN [db |-> db, res |-> response(400, "missing_fields", <<>>, <<>>)]
    ELSE IF fail = "zones_select"
    THEN [db |-> db, res |-> response(500, "error", <<>>, <<>>)]
    ELSE
      LET dtid == body.dtid
          currentLat == body.currentLat
          currentLong == body.currentLong
          zones == SelectSeq(zonesRaw, isActiveZone)
          breachedZones ==
              SelectSeq(zones, LAMBDA zone :
                  isInsideGeofence(currentLat, currentLong, zone.latitude,
                                   zone.longitude, zone.radius_meters))
          nearbyZones ==
              SelectSeq(findNearestZones(currentLat, currentLong, zones, 10000),
                        LAMBDA zone : \A i \in 1..Len(breachedZones) :
                                         breachedZones[i].id # zone.id)
          highestRiskZone == highestRiskZoneOf(breachedZones)
          row == newAnomaly(db.anomalies, dtid, "geofence_breach",
                            highestRiskZone.risk_level,
                            [zone_id |-> highestRiskZone.id,
                             zone_name |-> highestRiskZone.name,
                             zone_type |-> highestRiskZone.zone_type])
          inserted == IF fail = "anomaly_insert" THEN db
                      ELSE [db EXCEPT !.anomalies = Append(@, row)]
          scoreDeduction == IF highestRiskZone.risk_level = "critical"
                            THEN -30 * UnitsPerPoint ELSE -20 * UnitsPerPoint
          updated == updateSafetyScore(inserted, dtid, scoreDeduction,
                                       "geofence_breach", fail)
          data == [inside |-> Len(breachedZones) > 0,
                   breached_zones |-> breachedZones,
                   nearby_zones |-> SubSeq(nearbyZones, 1, Min(5, Len(nearbyZones))),
                   risk_level |-> maxRank(breachedZones)]
      IN  IF Len(breachedZones) > 0
          THEN [db |-> updated.db,
                res |-> response(200, "ok", data,
                          <<ledgerCall(dtid, scoreDeduction, "geofence_breach", updated)>>)]
          ELSE [db |-> db, res |-> response(200, "ok", data, <<>>)]

\* ------------------------------------------------- TouristIDRegistry.sol
\* The contract's storage as a record c = [owner, registry, dtidRegistered,
\* dtidList]; a function returns the storage after the call and whether the
\* call reverted (a revert rolls every write back).
Addresses == {"a1", "a2"}
Deployer == "a1"
Dtids == {"d1", "d2", "d3"}
IdHashes == {"h1"}
Roles == {"Tourist", "Admin"}
NoTourist == [idHash |-> "0x0", role |-> "Tourist", exists |-> FALSE]

txRevert(c) == [c |-> c, reverted |-> TRUE]
txReturn(c) == [c |-> c, reverted |-> FALSE]

registerUser(c, sender, user, idHash, role) ==
    IF sender # c.owner THEN txRevert(c)
    ELSE IF c.registry[user].exists THEN txRevert(c)
    ELSE txReturn([c EXCEPT !.registry[user] =
                      [idHash |-> idHash, role |-> role, exists |-> TRUE]])

updateRole(c, sender, user, newRole) ==
    IF sender # c.owner THEN txRevert(c)
    ELSE IF ~c.registry[user].exists THEN txRevert(c)
    ELSE txReturn([c EXCEPT !.registry[user].role = newRole])

\* A registration without the require on dtidRegistered.
registerDTID_noDuplicateCheck(c, sender, dtid) ==
    IF sender # c.owner THEN txRevert(c)
    ELSE txReturn([c EXCEPT !.dtidRegistered[dtid] = TRUE,
                            !.dtidList = Append(@, dtid)])

registerDTID(c, sender, dtid) ==
    IF sender # c.owner THEN txRevert(c)
    ELSE IF c.dtidRegistered[dtid] THEN txRevert(c)
    ELSE txReturn([c EXCEPT !.dtidRegistered[dtid] = TRUE,
                            !.dtidList = Append(@, dtid)])

verifyDTID(c, dtid) == c.dtidRegistered[dtid]
totalDTIDs(c) == Len(c.dtidList)

\* ------------------------------------------------- routes/auth.cjs, OTP
\* The in-memory OTP flow.  Time is counted in units of ten minutes; an
\* entry lives 10 * 60 * 1000 ms, one unit.  o = [storage, issued]: the Map
\* and the number of entries created; the entry's serial stands for the
\* identity of the object otpStorage.set stores.
MaxIssues == 2
MaxClock == 2
OtpLifetime == 1
MaxAttempts == 3
Mobiles == {"+919000000001", "+919000000002"}
Otps == {"111111", "222222"}

\* /^\+91[6-9]\d{9}$/.test(mobile_number), over the numbers used here.
mobileRegexTest(mobile) == mobile \in Mobiles

mapSet(map, key, value) ==
    [k \in DOMAIN map \cup {key} |-> IF k = key THEN value ELSE map[k]]
mapDelete(map, key) == [k \in DOMAIN map \ {key} |-> map[k]]

\* otpStorage.set(mobile, {otp, expiry: Date.now() + 10 min, attempts: 0, ...})
issueOtp(o, mobile, otp, now) ==
    [storage |-> mapSet(o.storage, mobile,
                   [otp |-> otp, expiry |-> now + OtpLifetime, attempts |-> 0,
                    serial |-> o.issued + 1]),
     issued |-> o.issued + 1]

\* POST /register.  fail = "tourists_select": the lookup of the tourist
\* returns an error other than PGRST116.  The SMS is sent after the entry is
\* stored and its failure is answered 200 too.
register(o, mobile, otp, now, fail) ==
    IF mobile = "" \/ ~mobileRegexTest(mobile) THEN [o |-> o, http |-> 400]
    ELSE IF fail = "tourists_select" THEN [o |-> o, http |-> 500]
    ELSE [o |-> issueOtp(o, mobile, otp, now), http |-> 200]

\* POST /resend-otp (the first handler registered for the path).
resendOtp(o, mobile, otp, now) ==
    IF mobile = "" \/ ~mobileRegexTest(mobile) THEN [o |-> o, http |-> 400]
    ELSE [o |-> issueOtp(o, mobile, otp, now), http |-> 200]

\* A verification that leaves the entry in the Map when the OTP matches.
verifyOtp_keepEntry(o, mobile, otp, now, fail) ==
    IF mobile = "" \/ otp = "" \/ mobile \notin DOMAIN o.storage
    THEN [o |-> o, http |-> 400, accepted |-> <<>>]
    ELSE IF now > o.storage[mobile].expiry \/ o.storage[mobile].otp # otp
    THEN [o |-> [o EXCEPT !.storage = mapDelete(@, mobile)], http |-> 400,
          accepted |-> <<>>]
    ELSE IF fail = "jwt_sign" THEN [o |-> o, http |-> 500, accepted |-> <<>>]
    ELSE [o |-> o, http |-> 200,
          accepted |-> <<[serial |-> o.storage[mobile].serial, mobile |-> mobile]>>]

\* POST /verify-otp (the first handler registered for the path; it has no
\* await before it answers, so it runs as one step).  fail = "jwt_sign":
\* jwt.sign throws after the entry is deleted and the catch answers 500.
verifyOtp(o, mobile, otp, now, fail) ==
    IF mobile = "" \/ otp = "" THEN [o |-> o, http |-> 400, accepted |-> <<>>]
    ELSE IF mobile \notin DOMAIN o.storage
    THEN [o |-> o, http |-> 400, accepted |-> <<>>]
    ELSE
      LET storedOtpData == o.storage[mobile]
          attempts == storedOtpData.attempts + 1
      IN  IF now > storedOtpData.expiry
          THEN [o |-> [o EXCEPT !.storage = mapDelete(@, mobile)], http |-> 400,
                accepted |-> <<>>]
          ELSE IF storedOtpData.otp # otp
          THEN [o |-> [o EXCEPT !.storage =
                         IF attempts >= MaxAttempts THEN mapDelete(@, mobile)
                         ELSE mapSet(@, mobile,
                                [storedOtpData EXCEPT !.attempts = attempts])],
                http |-> 400, accepted |-> <<>>]
          ELSE IF fail = "jwt_sign"
          THEN [o |-> [o EXCEPT !.storage = mapDelete(@, mobile)], http |-> 500,
                accepted |-> <<>>]
          ELSE [o |-> [o EXCEPT !.storage = mapDelete(@, mobile)], http |-> 200,
                accepted |-> <<[serial |-> storedOtpData.serial, mobile |-> mobile]>>]

\* ------------------------------------------------------------------ state
VARIABLES
    anomalies,   \* the anomalies table, in insertion order
    score,       \* tourist_profiles.safety_score by dtid, for the subjects with a profile
    events,      \* the safety_score_events table, in insertion order
    last,        \* the last operation: its name, its subject or anomaly id, the
                 \* store call that failed in it, its HTTP code, its ledger calls
    served,      \* the number of requests served so far
    pc,          \* per concurrent request: the await it is suspended at
    req,         \* per concurrent request: its subject, the signals left, its locals
    owner,           \* TouristIDRegistry.owner
    registry,        \* TouristIDRegistry.registry, by address
    dtidRegistered,  \* TouristIDRegistry.dtidRegistered, by DTID hash
    dtidList,        \* TouristIDRegistry.dtidList
    tx,              \* the last transaction sent to the contract, and whether it reverted
    otpStorage,      \* auth.cjs otpStorage: the entry stored per mobile number
    otpIssued,       \* the number of entries created so far by otpStorage.set
    otpNow,          \* Date.now(), in units of ten minutes
    otpVerified,     \* the entries a /verify-otp request has accepted, in order
    otpLast          \* the last OTP request: its route, its body, its HTTP code

contractVars == <<owner, registry, dtidRegistered, dtidList, tx>>
otpVars == <<otpStorage, otpIssued, otpNow, otpVerified, otpLast>>

vars == <<anomalies, score, events, last, served, pc, req, contractVars, otpVars>>

store == [anomalies |-> anomalies, score |-> score, events |-> events]

\* ----------------------------------------------------------------- inputs
\* Detector results (utils/anomalyDetection, utils/geofencing: isAnomaly true),
\* as {type, severity, details}.
signal(type, severity) ==
    [type |-> type, severity |-> severity, details |-> [source |-> type]]
Detections ==
    { <<>>,
      <<signal("inactivity", "high")>>,
      <<signal("geofence_breach", "critical")>>,
      <<signal("inactivity", "high"), signal("speed_anomaly", "low")>>,
      <<signal("route_deviation", "medium")>>,
      <<signal("speed_anomaly", "severe")>> }

\* Deltas of direct ledger calls, in half points.
Deltas == {-120 * UnitsPerPoint, 30 * UnitsPerPoint}

\* Resolution requests: the body's status and notes, and the time of the call.
ResolveBodies ==
    { [status |-> "resolved", notes |-> "checked", now |-> 1],
      [status |-> Undefined, notes |-> Undefined, now |-> 2],
      [status |-> "false_positive", notes |-> "mistaken", now |-> 2],
      [status |-> "active", notes |-> Undefined, now |-> 2] }
AnomalyIds == 1..3

zoneRow(id, latitude, radius, risk) ==
    [id |-> id, name |-> id, zone_type |-> "restricted", latitude |-> latitude,
     longitude |-> 77200, radius_meters |-> radius, risk_level |-> risk]
withFlag(zone, column, value) ==
    [k \in DOMAIN zone \cup {column} |-> IF k = column THEN value ELSE zone[k]]

\* restricted_zones tables for the handlers run together: a low zone around
\* 28.600 with a critical zone whose edge passes through it, and the low zone
\* alone.
PlainCatalogs ==
    { <<zoneRow("z1", 28600, 1000, "low"), zoneRow("z2", 28602, 222, "critical"),
        zoneRow("z3", 28650, 1000, "high")>>,
      <<zoneRow("z1", 28600, 1000, "low")>> }

\* restricted_zones tables for position checks alone: those above, two critical
\* zones of equal rank, eight zones of which seven lie within 10 km, and zones
\* carrying the is_active or active column.
Catalogs ==
    PlainCatalogs \cup
    { <<zoneRow("z4", 28602, 500, "critical"), zoneRow("z1", 28600, 1000, "low"),
        zoneRow("z5", 28601, 500, "critical")>>,
      <<zoneRow("n1", 28620, 500, "medium"), zoneRow("z1", 28600, 1000, "low"),
        zoneRow("n2", 28610, 500, "medium"), zoneRow("n3", 28650, 500, "medium"),
        zoneRow("n4", 28580, 500, "medium"), zoneRow("n5", 28630, 500, "medium"),
        zoneRow("n6", 28670, 500, "medium"), zoneRow("n7", 28700, 500, "medium")>>,
      <<withFlag(zoneRow("f1", 28600, 1000, "critical"), "is_active", "false"),
        withFlag(zoneRow("f2", 28600, 1000, "critical"), "active", "false"),
        withFlag(zoneRow("f3", 28600, 1000, "critical"), "is_active", "null"),
        withFlag(zoneRow("f4", 28600, 1000, "low"), "is_active", "true"),
        withFlag(withFlag(zoneRow("f5", 28600, 1000, "high"), "is_active", "true"),
                 "active", "false"),
        zoneRow("f6", 28610, 500, "medium")>> }

\* Request bodies for the handlers run together.
PlainBodies ==
    { [dtid |-> "t1", currentLat |-> 28600, currentLong |-> 77200],
      [dtid |-> "t2", currentLat |-> 28600, currentLong |-> 77200],
      [dtid |-> "t1", currentLat |-> 28640, currentLong |-> 77200],
      [dtid |-> "t1", currentLat |-> 28600] }

\* Request bodies for position checks alone: also the equator, the prime
\* meridian, a latitude beyond 90 degrees and a body without dtid.
Bodies ==
    PlainBodies \cup
    { [dtid |-> d, currentLat |-> lat, currentLong |-> 77200] :
        d \in Subjects, lat \in {0, 28600, 28640} }
    \cup { [dtid |-> "t1", currentLat |-> 28600, currentLong |-> 0],
           [dtid |-> "t1", currentLat |-> 91000, currentLong |-> 77200],
           [currentLat |-> 28600, currentLong |-> 77200] }

\* The store call that returns an error during an operation, if any.
NoFail == {"none"}
LedgerFails == {"none", "profile_select", "profile_update", "event_insert"}

RECURSIVE latest(_)
latest(table) ==
    IF table = <<>> THEN 0 ELSE Max(Head(table).resolved_at, latest(Tail(table)))

\* Requests in flight at once (the handlers are async: each await hands the
\* event loop to the other requests).
Procs == {"p1", "p2"}
IdleRequest == [dtid |-> "", signals |-> <<>>, created |-> {}, newScore |-> 0]

\* ---------------------------------------------------------------- actions
Commit(op, key, input, fail, out) ==
    /\ served < MaxRequests
    /\ served' = served + 1
    /\ anomalies' = out.db.anomalies
    /\ score' = out.db.score
    /\ events' = out.db.events
    /\ last' = [op |-> op, key |-> key, input |-> input, fail |-> fail,
                http |-> out.res.http, status |-> out.res.status,
                data |-> out.res.data, calls |-> out.res.calls]
    /\ UNCHANGED <<pc, req>>
    /\ UNCHANGED <<contractVars, otpVars>>

Init ==
    /\ anomalies = <<>>
    /\ score \in {[s \in P |-> DefaultScore] : P \in {{"t1"}, Subjects}}
    /\ events = <<>>
    /\ last = [op |-> "none", key |-> "none", input |-> <<>>, fail |-> "none",
               http |-> 0, status |-> "none", data |-> <<>>, calls |-> <<>>]
    /\ served = 0
    /\ pc = [p \in Procs |-> "idle"]
    /\ req = [p \in Procs |-> IdleRequest]
    /\ owner = Deployer
    /\ registry = [a \in Addresses |-> NoTourist]
    /\ dtidRegistered = [d \in Dtids |-> FALSE]
    /\ dtidList = <<>>
    /\ tx = [fn |-> "constructor", sender |-> Deployer, arg |-> <<>>, reverted |-> FALSE]
    /\ otpStorage = <<>>
    /\ otpIssued = 0
    /\ otpNow = 0
    /\ otpVerified = <<>>
    /\ otpLast = [op |-> "none", mobile |-> "", otp |-> "", http |-> 0]

UpdateSafetyScore(Fails) ==
    \E dtid \in Subjects, delta \in Deltas, fail \in Fails :
        LET r == updateSafetyScore(store, dtid, delta, "manual", fail)
        IN  Commit("updateSafetyScore", dtid, <<>>, fail,
                   [db |-> r.db,
                    res |-> response(0, "returned", <<>>,
                              <<ledgerCall(dtid, delta, "manual", r)>>)])

CheckAnomalies(Fails) ==
    \E dtid \in Subjects, hasLocations \in BOOLEAN, signals \in Detections,
       fail \in Fails :
        Commit("checkAnomalies", dtid, [hasLocations |-> hasLocations], fail,
               checkAnomalies(store, dtid, hasLocations, signals, fail))

ResolveAnomaly(Fails) ==
    \E anomalyId \in AnomalyIds, body \in ResolveBodies, fail \in Fails :
        /\ body.now >= latest(anomalies)
        /\ Commit("resolveAnomaly", anomalyId, <<>>, fail,
                  resolveAnomaly(store, anomalyId, body.status, body.notes,
                                 body.now, fail))

CheckGeofenceOn(Requests, Tables, Fails) ==
    \E body \in Requests, zonesRaw \in Tables, fail \in Fails :
        Commit("checkGeofence", IF "dtid" \in DOMAIN body THEN body.dtid ELSE "",
               [body |-> body, zonesRaw |-> zonesRaw], fail,
               checkGeofence(store, body, zonesRaw, fail))

CheckGeofence(Fails) == CheckGeofenceOn(PlainBodies, PlainCatalogs, Fails)

\* The HTTP operations, the store answering every call.
Next ==
    \/ CheckAnomalies(NoFail)
    \/ ResolveAnomaly(NoFail)
    \/ CheckGeofence(NoFail)

Spec == Init /\ [][Next]_vars

\* Position checks alone, with the zone query failing or not.
GeofenceFails == {"none", "zones_select"}
NextGeofence == CheckGeofenceOn(Bodies, Catalogs, GeofenceFails)
SpecGeofence == Init /\ [][NextGeofence]_vars

\* The ledger alone: updateSafetyScore called with arbitrary deltas, a store
\* call of it possibly returning an error.
NextLedger == UpdateSafetyScore(LedgerFails)

SpecLedger == Init /\ [][NextLedger]_vars

\* ---------------------------------------------- interleaved detection passes
\* The three handlers with each store call of the ledger failing or not.
NextFaulty ==
    \/ CheckAnomalies(LedgerFails)
    \/ ResolveAnomaly(LedgerFails)
    \/ CheckGeofence(LedgerFails)
SpecFaulty == Init /\ [][NextFaulty]_vars

\* Detection passes and resolutions, the anomalies select or update of a
\* resolution failing or not.
ResolveFails == {"none", "anomaly_select", "anomaly_update"}
NextResolve ==
    \/ CheckAnomalies(NoFail)
    \/ ResolveAnomaly(ResolveFails)
SpecResolve == Init /\ [][NextResolve]_vars

\* Detection passes alone, with each of the handler's store calls, or a
\* detector, failing or not.
PassFails ==
    {"locations_select", "detector_throw", "anomaly_select", "anomaly_insert",
     "active_select"} \cup LedgerFails
NextPass == CheckAnomalies(PassFails)
SpecPass == Init /\ [][NextPass]_vars

\* checkAnomalies one await at a time.  The reads before the loop (locations,
\* itineraries, the zone lookup) touch none of the tables written here and
\* are folded into the start of the request.
afterSignal(signals) ==
    IF Tail(signals) = <<>> THEN "select_active" ELSE "select_existing"

StartPass(p) ==
    /\ pc[p] \in {"idle", "done"}
    /\ served < MaxRequests
    /\ \E dtid \in Subjects, signals \in Detections :
         /\ req' = [req EXCEPT ![p] = [IdleRequest EXCEPT !.dtid = dtid,
                                                          !.signals = signals]]
         /\ pc' = [pc EXCEPT ![p] = IF signals = <<>> THEN "select_active"
                                    ELSE "select_existing"]
    /\ served' = served + 1
    /\ UNCHANGED <<anomalies, score, events, last>>
    /\ UNCHANGED <<contractVars, otpVars>>

\* await supabase.from('anomalies').select('id')...single()
SelectExisting(p) ==
    /\ pc[p] = "select_existing"
    /\ LET anomaly == Head(req[p].signals)
           existing == single(activeOfType(anomalies, req[p].dtid, anomaly.type)).data
       IN  IF existing # Null
           THEN /\ pc' = [pc EXCEPT ![p] = afterSignal(req[p].signals)]
                /\ req' = [req EXCEPT ![p].signals = Tail(@)]
           ELSE /\ pc' = [pc EXCEPT ![p] = "insert_anomaly"]
                /\ req' = req
    /\ UNCHANGED <<anomalies, score, events, last, served>>
    /\ UNCHANGED <<contractVars, otpVars>>

\* await supabase.from('anomalies').insert({...})
InsertAnomaly(p) ==
    /\ pc[p] = "insert_anomaly"
    /\ LET anomaly == Head(req[p].signals)
       IN  /\ anomalies' = Append(anomalies,
                             newAnomaly(anomalies, req[p].dtid, anomaly.type,
                                        anomaly.severity, anomaly.details))
           /\ req' = [req EXCEPT ![p].created = @ \cup {anomaly.type}]
    /\ pc' = [pc EXCEPT ![p] = "select_profile"]
    /\ UNCHANGED <<score, events, last, served>>
    /\ UNCHANGED <<contractVars, otpVars>>

\* updateSafetyScore: await ...select('safety_score')...single(), then
\* currentScore and newScore are computed before the next await.
SelectProfile(p) ==
    /\ pc[p] = "select_profile"
    /\ LET fetched == single(profileRows(score, req[p].dtid))
           delta == getSeverityScore(Head(req[p].signals).severity)
       IN  IF fetched.error
           THEN /\ pc' = [pc EXCEPT ![p] = afterSignal(req[p].signals)]
                /\ req' = [req EXCEPT ![p].signals = Tail(@)]
           ELSE /\ pc' = [pc EXCEPT ![p] = "update_profile"]
                /\ req' = [req EXCEPT ![p].newScore =
                             clampScore(fetched.data[1].safety_score + delta)]
    /\ UNCHANGED <<anomalies, score, events, last, served>>
    /\ UNCHANGED <<contractVars, otpVars>>

\* await ...update({ safety_score: newScore }).eq('dtid', dtid)
UpdateProfile(p) ==
    /\ pc[p] = "update_profile"
    /\ score' = [score EXCEPT ![req[p].dtid] = req[p].newScore]
    /\ pc' = [pc EXCEPT ![p] = "insert_event"]
    /\ UNCHANGED <<anomalies, events, last, served, req>>
    /\ UNCHANGED <<contractVars, otpVars>>

\* await ...from('safety_score_events').insert({...}); the call returns and
\* the loop goes on to the next signal.
InsertEvent(p) ==
    /\ pc[p] = "insert_event"
    /\ LET anomaly == Head(req[p].signals)
       IN  events' = Append(events,
                       [dtid |-> req[p].dtid,
                        delta |-> getSeverityScore(anomaly.severity),
                        reason |-> anomaly.type,
                        resulting_score |-> req[p].newScore])
    /\ pc' = [pc EXCEPT ![p] = afterSignal(req[p].signals)]
    /\ req' = [req EXCEPT ![p].signals = Tail(@)]
    /\ UNCHANGED <<anomalies, score, last, served>>
    /\ UNCHANGED <<contractVars, otpVars>>

\* await ...select('*').eq('status', 'active'), then res.json
SelectActive(p) ==
    /\ pc[p] = "select_active"
    /\ pc' = [pc EXCEPT ![p] = "done"]
    /\ UNCHANGED <<anomalies, score, events, last, served, req>>
    /\ UNCHANGED <<contractVars, otpVars>>

NextConc ==
    \E p \in Procs :
        \/ StartPass(p)
        \/ SelectExisting(p)
        \/ InsertAnomaly(p)
        \/ SelectProfile(p)
        \/ UpdateProfile(p)
        \/ InsertEvent(p)
        \/ SelectActive(p)

SpecConc == Init /\ [][NextConc]_vars

\* The contract's transactions, from any address.
contract == [owner |-> owner, registry |-> registry,
             dtidRegistered |-> dtidRegistered, dtidList |-> dtidList]

Mine(fn, sender, arg, out) ==
    /\ owner' = out.c.owner
    /\ registry' = out.c.registry
    /\ dtidRegistered' = out.c.dtidRegistered
    /\ dtidList' = out.c.dtidList
    /\ tx' = [fn |-> fn, sender |-> sender, arg |-> arg, reverted |-> out.reverted]
    /\ UNCHANGED <<anomalies, score, events, last, served, pc, req, otpVars>>

RegisterUser ==
    \E sender \in Addresses, user \in Addresses, idHash \in IdHashes, role \in Roles :
        Mine("registerUser", sender, <<user, idHash, role>>,
             registerUser(contract, sender, user, idHash, role))

UpdateRole ==
    \E sender \in Addresses, user \in Addresses, newRole \in Roles :
        Mine("updateRole", sender, <<user, newRole>>,
             updateRole(contract, sender, user, newRole))

RegisterDTID ==
    \E sender \in Addresses, dtid \in Dtids :
        Mine("registerDTID", sender, <<dtid>>, registerDTID(contract, sender, dtid))

NextRegistry ==
    \/ RegisterUser
    \/ UpdateRole
    \/ RegisterDTID
SpecRegistry == Init /\ [][NextRegistry]_vars

\* The OTP routes.  The awaits of /register come before the entry is stored
\* (the lookups) or after it (the SMS) and touch no Map entry, so each request
\* is one step on otpStorage.
otpState == [storage |-> otpStorage, issued |-> otpIssued]

Answer(op, mobile, otp, out, accepted) ==
    /\ otpStorage' = out.o.storage
    /\ otpIssued' = out.o.issued
    /\ otpVerified' = otpVerified \o accepted
    /\ otpLast' = [op |-> op, mobile |-> mobile, otp |-> otp, http |-> out.http]
    /\ UNCHANGED <<anomalies, score, events, last, served, pc, req, contractVars,
                   otpNow>>

Register ==
    /\ otpIssued < MaxIssues
    /\ \E mobile \in Mobiles \cup {"12345"}, otp \in Otps,
          fail \in {"none", "tourists_select"} :
         Answer("register", mobile, otp,
                register(otpState, mobile, otp, otpNow, fail), <<>>)

ResendOtp ==
    /\ otpIssued < MaxIssues
    /\ \E mobile \in Mobiles \cup {"12345"}, otp \in Otps :
         Answer("resend-otp", mobile, otp,
                resendOtp(otpState, mobile, otp, otpNow), <<>>)

VerifyOtp ==
    \E mobile \in Mobiles \cup {""}, otp \in Otps \cup {""},
       fail \in {"none", "jwt_sign"} :
        LET out == verifyOtp(otpState, mobile, otp, otpNow, fail)
        IN  Answer("verify-otp", mobile, otp, out, out.accepted)

Tick ==
    /\ otpNow < MaxClock
    /\ otpNow' = otpNow + 1
    /\ UNCHANGED <<anomalies, score, events, last, served, pc, req, contractVars,
                   otpStorage, otpIssued, otpVerified, otpLast>>

NextOtp ==
    \/ Register
    \/ ResendOtp
    \/ VerifyOtp
    \/ Tick
SpecOtp == Init /\ [][NextOtp]_vars

\* ----------------------------------------------------------------- claims
isActive(r) == r.status = "active"
Rows == 1..Len(anomalies)

\* C1: every updateSafetyScore call that reports success leaves the subject's
\* stored score in [0,100] and equal to the score before the call plus the
\* delta, clamped to [0,100]; a call that reports failure stores nothing.
C1_ScoreClamped ==
    [][ last'.op = "updateSafetyScore" =>
          LET call == last'.calls[1]
              sum == score[call.dtid] + call.delta
          IN  IF call.success
              THEN /\ score'[call.dtid] >= 0 /\ score'[call.dtid] <= 100 * UnitsPerPoint
                   /\ score'[call.dtid] =
                        (IF sum < 0 THEN 0
                         ELSE IF sum > 100 * UnitsPerPoint THEN 100 * UnitsPerPoint
                         ELSE sum)
              ELSE score' = score ]_vars
\* A successful call whose sum fell below 0 and was stored as 0.
C1_Witness ==
    /\ last.op = "updateSafetyScore"
    /\ last.calls[1].success
    /\ last.calls[1].delta < 0 - DefaultScore
    /\ score[last.key] = 0

\* C2: at most one anomaly with status active per (subject, anomaly type).
C2_OneActivePerSubjectType ==
    \A i, j \in Rows :
        (/\ i # j
         /\ isActive(anomalies[i]) /\ isActive(anomalies[j])
         /\ anomalies[i].dtid = anomalies[j].dtid)
        => anomalies[i].anomaly_type # anomalies[j].anomaly_type

\* C3: an operation invokes the ledger once for each anomaly record it
\* creates, for that record's subject, and creates no record and makes no
\* ledger call for a (subject, type) that already has an active anomaly.
C3_DeductionPerCreation ==
    [][ /\ Len(anomalies') - Len(anomalies) = Len(last'.calls)
          \/ last'.op = "resolveAnomaly"
        /\ \A k \in (Len(anomalies) + 1)..Len(anomalies') :
             /\ anomalies'[k].dtid = last'.key
             /\ activeOfType(anomalies, anomalies'[k].dtid,
                             anomalies'[k].anomaly_type) = <<>> ]_vars

\* C4: a detection pass run a second time with the same signals leaves the
\* store (anomalies, scores, events) exactly as the first run left it.
C4_PassIdempotent ==
    \A dtid \in Subjects, signals \in Detections :
        LET once == checkAnomalies(store, dtid, TRUE, signals, "none").db
        IN  checkAnomalies(once, dtid, TRUE, signals, "none").db = once

\* C8: an anomaly whose status is resolved or false_positive is never
\* changed again (status, resolved_at and metadata stay as they are).
C8_TerminalStatusIsFinal ==
    [][ \A i \in Rows :
          ~isActive(anomalies[i]) => anomalies'[i] = anomalies[i] ]_vars

\* C9: a successful resolveAnomaly with status resolved makes exactly one
\* ledger call, for the anomaly's subject, with reason anomaly_resolved and
\* the positive half of the deduction of the anomaly's severity (which the
\* ledger adds, clamped, when the subject has a profile); with status
\* false_positive it makes no ledger call and scores and events are unchanged.
C9_HalfOf(severity) ==
    CASE severity = "low" -> 5 [] severity = "medium" -> 10
      [] severity = "high" -> 20 [] severity = "critical" -> 30 [] OTHER -> 10
C9_ResolveRestoresHalf ==
    [][ (last'.op = "resolveAnomaly" /\ last'.http = 200) =>
          LET a == anomalies'[last'.key]
              delta == C9_HalfOf(a.severity)
              held == a.dtid \in DOMAIN score
          IN  IF a.status = "resolved"
              THEN /\ last'.calls = <<[dtid |-> a.dtid, delta |-> delta,
                                       reason |-> "anomaly_resolved",
                                       success |-> held]>>
                   /\ held =>
                        /\ score'[a.dtid] = Min(100 * UnitsPerPoint,
                                                score[a.dtid] + delta)
                        /\ events' = Append(events,
                                        [dtid |-> a.dtid, delta |-> delta,
                                         reason |-> "anomaly_resolved",
                                         resulting_score |-> score'[a.dtid]])
                   /\ ~held => events' = events
                   /\ \A d \in DOMAIN score \ {a.dtid} : score'[d] = score[d]
              ELSE /\ a.status = "false_positive"
                   /\ last'.calls = <<>>
                   /\ score' = score
                   /\ events' = events ]_vars
\* An anomaly of severity high was resolved and 10 points were restored.
C9_Witness ==
    /\ last.op = "resolveAnomaly" /\ last.http = 200
    /\ anomalies[last.key].status = "resolved"
    /\ anomalies[last.key].severity = "high"
    /\ last.calls[1].success
    /\ last.calls[1].delta = 10 * UnitsPerPoint
    /\ score[anomalies[last.key].dtid] = 90 * UnitsPerPoint

\* C10: resolveAnomaly for an id that has no record (and a valid status)
\* answers 404 and changes no anomaly, score or event.
C10_UnknownIdNotFound ==
    [][ (/\ last'.op = "resolveAnomaly"
         /\ last'.key > Len(anomalies)
         /\ last'.http # 400)
        => (/\ last'.http = 404
            /\ anomalies' = anomalies /\ score' = score /\ events' = events) ]_vars

\* The events of one subject, in append order.
eventsOf(dtid) == SelectSeq(events, LAMBDA e : e.dtid = dtid)

\* C5: two detection passes for one subject never both create an anomaly of
\* the same type (no resolution happens in between: none is modelled here).
C5_OnePassCreates ==
    \A p, q \in Procs :
        (p # q /\ req[p].dtid = req[q].dtid)
        => req[p].created \cap req[q].created = {}

\* C6: when no ledger call is in flight and a subject has had exactly two,
\* its stored score is what the two deltas give applied one after the other,
\* clamped, in one of the two orders.
ledgerInFlight(p) == pc[p] \in {"select_profile", "update_profile", "insert_event"}
C6_NoLostUpdate ==
    \A dtid \in DOMAIN score :
        LET es == eventsOf(dtid)
        IN  ((\A p \in Procs : ~ledgerInFlight(p)) /\ Len(es) = 2)
            => score[dtid] \in
                 { clampScore(clampScore(DefaultScore + es[1].delta) + es[2].delta),
                   clampScore(clampScore(DefaultScore + es[2].delta) + es[1].delta) }

\* C7: every stored score is what replaying the subject's events from 100
\* gives, clamping after each delta.
RECURSIVE replay(_, _)
replay(start, es) ==
    IF es = <<>> THEN start
    ELSE replay(clampScore(start + Head(es).delta), Tail(es))
C7_ScoreIsReplayOfEvents ==
    \A dtid \in DOMAIN score : score[dtid] = replay(DefaultScore, eventsOf(dtid))

\* C11: resolveAnomaly with a status other than resolved or false_positive
\* answers 400, whatever the anomaly id, the notes and the state of the
\* store calls, and leaves anomalies, scores and events as they were.
C11_InvalidStatuses == {"active", "Resolved"}
C11_InvalidStatusRejected ==
    \A anomalyId \in AnomalyIds, status \in C11_InvalidStatuses,
       notes \in {Undefined, "checked"}, fail \in {"none", "anomaly_select"} :
        resolveAnomaly(store, anomalyId, status, notes, latest(anomalies), fail)
          = [db |-> store, res |-> response(400, "invalid_status", <<>>, <<>>)]
\* A request with an invalid status was answered 400 while the anomaly it
\* names exists and is active.
C11_Witness ==
    /\ last.op = "resolveAnomaly" /\ last.http = 400
    /\ last.key \in Rows /\ isActive(anomalies[last.key])

\* C12: for every anomaly a detection pass creates, the delta handed to the
\* ledger is -5, -10, -20 or -30 points for severity low, medium, high or
\* critical, and -10 points for any other severity; the call is made for the
\* pass's subject with the anomaly's type as reason.
C12_PointsFor(severity) ==
    IF severity = "low" THEN -5
    ELSE IF severity = "high" THEN -20
    ELSE IF severity = "critical" THEN -30
    ELSE -10
C12_PassDeltaFromTable ==
    [][ last'.op = "checkAnomalies" =>
          /\ Len(last'.calls) = Len(anomalies') - Len(anomalies)
          /\ \A k \in 1..Len(last'.calls) :
               LET row == anomalies'[Len(anomalies) + k]
                   call == last'.calls[k]
               IN  /\ call.delta = C12_PointsFor(row.severity) * UnitsPerPoint
                   /\ call.dtid = last'.key
                   /\ call.reason = row.anomaly_type ]_vars
\* A pass has created an anomaly of a severity outside the table and one
\* inside it, each with its ledger call.
C12_Witness ==
    /\ last.op = "checkAnomalies" /\ Len(last.calls) = 1
    /\ anomalies[Len(anomalies)].severity = "severe"
    /\ last.calls[1].delta = -10 * UnitsPerPoint
    /\ \E k \in Rows : anomalies[k].severity = "medium"

\* C13: a geofence check that finds a breach deducts the severity table's
\* value for the dominant zone's risk level (low -5, medium -10, high -20,
\* critical -30 points), the table the detection pass uses; a subject at 100
\* breaching a critical zone ends at 70.
C13_GeofenceDeltaFromTable ==
    [][ (last'.op = "checkGeofence" /\ Len(anomalies') > Len(anomalies)) =>
          LET row == anomalies'[Len(anomalies')]
          IN  /\ Len(last'.calls) = 1
              /\ last'.calls[1].delta = C12_PointsFor(row.severity) * UnitsPerPoint
              /\ (row.severity = "critical" /\ row.dtid \in DOMAIN score
                  /\ score[row.dtid] = 100 * UnitsPerPoint)
                    => score'[row.dtid] = 70 * UnitsPerPoint ]_vars

\* C14: when a geofence check finds several breached zones, the anomaly it
\* creates has the highest risk level among the breached zones (low < medium
\* < high < critical), whatever their distances and their order in the
\* catalog, and its metadata name the first zone in catalog order among those
\* of that highest level.
C14_Rank(level) ==
    IF level = "low" THEN 1 ELSE IF level = "medium" THEN 2
    ELSE IF level = "high" THEN 3 ELSE IF level = "critical" THEN 4 ELSE 0
C14_DominantZone ==
    [][ (last'.op = "checkGeofence" /\ last'.http = 200) =>
          LET body == last'.input.body
              zonesRaw == last'.input.zonesRaw
              breached ==
                  {i \in 1..Len(zonesRaw) :
                      /\ isActiveZone(zonesRaw[i])
                      /\ haversineDistanceMeters(body.currentLat, body.currentLong,
                             zonesRaw[i].latitude, zonesRaw[i].longitude)
                           <= zonesRaw[i].radius_meters}
              top == {i \in breached :
                         \A j \in breached : C14_Rank(zonesRaw[j].risk_level)
                                               <= C14_Rank(zonesRaw[i].risk_level)}
              first == CHOOSE i \in top : \A j \in top : i <= j
          IN  breached # {} =>
                /\ Len(anomalies') = Len(anomalies) + 1
                /\ LET row == anomalies'[Len(anomalies')]
                   IN  /\ row.anomaly_type = "geofence_breach"
                       /\ row.severity = zonesRaw[first].risk_level
                       /\ row.metadata.zone_id = zonesRaw[first].id ]_vars
\* A check has recorded zone z4: critical like z5, listed before it, farther
\* from the position than z5 and than the low zone z1, all three breached.
C14_Witness ==
    /\ last.op = "checkGeofence" /\ last.http = 200
    /\ anomalies # <<>>
    /\ anomalies[Len(anomalies)].severity = "critical"
    /\ anomalies[Len(anomalies)].metadata.zone_id = "z4"

\* C15: when a store call inside updateSafetyScore fails during a detection
\* pass, a geofence check or a resolution, the failure reaches the handler,
\* so the handler does not answer with success.
C15_LedgerFailurePropagated ==
    [][ (/\ last'.op \in {"checkAnomalies", "checkGeofence", "resolveAnomaly"}
         /\ last'.fail \in LedgerFails \ {"none"}
         /\ last'.calls # <<>>)
        => last'.http # 200 ]_vars

\* C16: for a subject with no stored profile, updateSafetyScore (no store
\* call failing) takes 100 as the current score, stores 100 + delta clamped
\* to [0,100] for the subject, appends the event and reports success with
\* that score.
C16_MissingProfileStartsAt100 ==
    [][ (/\ last'.op = "updateSafetyScore" /\ last'.fail = "none"
         /\ last'.key \notin DOMAIN score)
        => LET call == last'.calls[1]
               sum == 100 * UnitsPerPoint + call.delta
               kept == IF sum < 0 THEN 0
                       ELSE IF sum > 100 * UnitsPerPoint THEN 100 * UnitsPerPoint
                       ELSE sum
           IN  /\ call.success
               /\ last'.key \in DOMAIN score' /\ score'[last'.key] = kept
               /\ events' = Append(events, [dtid |-> last'.key, delta |-> call.delta,
                                            reason |-> call.reason,
                                            resulting_score |-> kept]) ]_vars

\* C17: the event log is append-only and complete: no step changes or
\* removes an event already in the log, and every updateSafetyScore call that
\* writes the subject's score appends exactly one event carrying the subject,
\* the delta, the reason and the score it wrote.
C17_EventLogComplete ==
    [][ /\ Len(events') >= Len(events)
        /\ SubSeq(events', 1, Len(events)) = events
        /\ (last'.op = "updateSafetyScore" /\ last'.calls[1].success) =>
              events' = Append(events,
                          [dtid |-> last'.key, delta |-> last'.calls[1].delta,
                           reason |-> last'.calls[1].reason,
                           resulting_score |-> score'[last'.key]]) ]_vars

\* C18: in a detection pass, the failure of one detector (or of the zone
\* lookup) does not abort the pass: the handler still reconciles the other
\* signals and answers with the results, not with a server error.
C18_DetectorFailureIsolated ==
    [][ (last'.op = "checkAnomalies" /\ last'.fail = "detector_throw")
        => last'.http = 200 ]_vars

\* C19: subjects are independent: a detection pass or a geofence check for a
\* subject, the ledger updates it makes, and the resolution of one of the
\* subject's anomalies leave every other subject's anomaly records, stored
\* score and events as they were.
C19_RowsOf(dtid) == SelectSeq(anomalies, LAMBDA r : r.dtid = dtid)
C19_OtherSubjectsUntouched ==
    [][ LET acting ==
              IF last'.op = "resolveAnomaly"
              THEN (IF last'.key \in Rows THEN anomalies[last'.key].dtid ELSE "")
              ELSE last'.key
        IN  \A other \in Subjects \ {acting} :
              /\ C19_RowsOf(other)' = C19_RowsOf(other)
              /\ eventsOf(other)' = eventsOf(other)
              /\ (other \in DOMAIN score) = (other \in DOMAIN score')
              /\ other \in DOMAIN score => score'[other] = score[other] ]_vars
\* An operation for t1 has moved t1's score while t2 has a profile, an
\* anomaly record, an event and a lowered score of its own.
C19_Witness ==
    /\ last.op \in {"checkAnomalies", "checkGeofence", "resolveAnomaly"}
    /\ last.calls # <<>> /\ last.calls[1].dtid = "t1" /\ last.calls[1].success
    /\ "t2" \in DOMAIN score /\ score["t2"] < DefaultScore
    /\ C19_RowsOf("t2") # <<>> /\ eventsOf("t2") # <<>>

\* C20: a successful resolveAnomaly keeps the anomaly's metadata: every key
\* present before the call is present after it with the same value, the
\* notes being added without overwriting any prior key.
C20_MetadataPreserved ==
    [][ (last'.op = "resolveAnomaly" /\ last'.http = 200 /\ last'.key \in Rows)
        => LET before == anomalies[last'.key].metadata
               after == anomalies'[last'.key].metadata
           IN  \A k \in DOMAIN before :
                 k \in DOMAIN after /\ after[k] = before[k] ]_vars

\* C21: the breached_zones a geofence check returns are exactly the active
\* zones of the catalog whose distance from the position is at most the
\* zone's radius (the edge included), each once, and inside is true exactly
\* when there is one.
C21_Within(body, zone) ==
    haversineDistanceMeters(body.currentLat, body.currentLong,
                            zone.latitude, zone.longitude) <= zone.radius_meters
C21_BreachedExactly ==
    [][ (last'.op = "checkGeofence" /\ last'.http = 200) =>
          LET body == last'.input.body
              zonesRaw == last'.input.zonesRaw
              expected == {i \in 1..Len(zonesRaw) :
                              isActiveZone(zonesRaw[i]) /\ C21_Within(body, zonesRaw[i])}
              returned == last'.data.breached_zones
          IN  /\ {returned[i] : i \in 1..Len(returned)}
                   = {zonesRaw[i] : i \in expected}
              /\ Len(returned) = Cardinality(expected)
              /\ last'.data.inside = (expected # {}) ]_vars
\* A check has returned zone z2, whose edge (222 m) passes through the
\* position, among the breached zones.
C21_Witness ==
    /\ last.op = "checkGeofence" /\ last.http = 200
    /\ last.data.inside
    /\ \E i \in 1..Len(last.data.breached_zones) :
         /\ last.data.breached_zones[i].id = "z2"
         /\ haversineDistanceMeters(last.input.body.currentLat, 0,
                                    last.data.breached_zones[i].latitude, 0)
              = last.data.breached_zones[i].radius_meters

\* C22: the nearby_zones a geofence check returns are the at most 5 nearest
\* of the active zones that lie within 10,000 m of the position and are not
\* breached, in ascending order of distance; no breached zone is among them.
C22_Distance(body, zone) ==
    haversineDistanceMeters(body.currentLat, body.currentLong,
                            zone.latitude, zone.longitude)
C22_NearbyZones ==
    [][ (last'.op = "checkGeofence" /\ last'.http = 200) =>
          LET body == last'.input.body
              zonesRaw == last'.input.zonesRaw
              candidates ==
                  {i \in 1..Len(zonesRaw) :
                      /\ isActiveZone(zonesRaw[i])
                      /\ C22_Distance(body, zonesRaw[i]) <= 10000
                      /\ C22_Distance(body, zonesRaw[i]) > zonesRaw[i].radius_meters}
              nearby == last'.data.nearby_zones
              listed == {i \in candidates :
                            \E k \in 1..Len(nearby) : nearby[k].id = zonesRaw[i].id}
          IN  /\ Len(nearby) = IF Cardinality(candidates) < 5
                               THEN Cardinality(candidates) ELSE 5
              /\ Cardinality(listed) = Len(nearby)
              /\ \A k \in 1..Len(nearby) :
                   /\ \E i \in candidates :
                        /\ nearby[k].id = zonesRaw[i].id
                        /\ nearby[k].distance = C22_Distance(body, zonesRaw[i])
                   /\ k > 1 => nearby[k - 1].distance <= nearby[k].distance
                   /\ \A j \in 1..Len(last'.data.breached_zones) :
                        last'.data.breached_zones[j].id # nearby[k].id
              /\ \A i \in candidates \ listed, k \in 1..Len(nearby) :
                   nearby[k].distance <= C22_Distance(body, zonesRaw[i]) ]_vars
\* A check inside a zone has returned five nearby zones out of six within
\* 10 km, a seventh lying farther.
C22_Witness ==
    /\ last.op = "checkGeofence" /\ last.http = 200
    /\ last.data.inside
    /\ Len(last.data.nearby_zones) = 5
    /\ Len(last.input.zonesRaw) = 8

\* C23: a zone is left out of geofence evaluation only when an active flag
\* it carries (is_active or active) is explicitly false: every zone with
\* neither column, or whose flag is not an explicit false, is evaluated, so
\* it is returned as breached when the position is within its radius.
C23_ExplicitlyInactive(zone) ==
    \/ "is_active" \in DOMAIN zone /\ zone.is_active = "false"
    \/ "active" \in DOMAIN zone /\ zone.active = "false"
C23_ActiveUnlessExplicitFalse ==
    [][ (last'.op = "checkGeofence" /\ last'.http = 200) =>
          LET body == last'.input.body
              zonesRaw == last'.input.zonesRaw
              returned == last'.data.breached_zones
          IN  \A i \in 1..Len(zonesRaw) :
                (/\ ~C23_ExplicitlyInactive(zonesRaw[i])
                 /\ C21_Within(body, zonesRaw[i]))
                => \E k \in 1..Len(returned) : returned[k].id = zonesRaw[i].id ]_vars

\* C24: a detection pass for a subject with no location rows answers with
\* status no_data and an empty anomaly list, creates no anomaly record and
\* makes no ledger call: anomalies, scores and events are unchanged.
C24_EmptyWindowNoData ==
    [][ (/\ last'.op = "checkAnomalies" /\ last'.fail = "none"
         /\ ~last'.input.hasLocations)
        => /\ last'.http = 200 /\ last'.status = "no_data"
           /\ last'.data = <<>> /\ last'.calls = <<>>
           /\ anomalies' = anomalies /\ score' = score /\ events' = events ]_vars
\* A pass without locations has answered no_data for a subject that has a
\* profile and an active anomaly from an earlier pass.
C24_Witness ==
    /\ last.op = "checkAnomalies" /\ ~last.input.hasLocations
    /\ last.status = "no_data"
    /\ last.key \in DOMAIN score
    /\ \E k \in Rows : anomalies[k].dtid = last.key /\ isActive(anomalies[k])

\* C25: a geofence check is rejected with HTTP 400, before any store read or
\* write, exactly when the subject id or a coordinate is missing or
\* malformed; a request with a subject id and coordinates within [-90,90]
\* and [-180,180], latitude 0 and longitude 0 included, is evaluated against
\* the zone catalog.
C25_WellFormed(body) ==
    /\ {"dtid", "currentLat", "currentLong"} \subseteq DOMAIN body
    /\ body.dtid # ""
    /\ body.currentLat >= -90000 /\ body.currentLat <= 90000
    /\ body.currentLong >= -180000 /\ body.currentLong <= 180000
C25_RejectsExactlyMalformed ==
    [][ (last'.op = "checkGeofence" /\ last'.fail = "none") =>
          /\ (last'.http = 400) = ~C25_WellFormed(last'.input.body)
          /\ C25_WellFormed(last'.input.body) => last'.http = 200
          /\ last'.http = 400 =>
               anomalies' = anomalies /\ score' = score /\ events' = events ]_vars

\* C26: the restoring delta (reason anomaly_resolved) is applied at most once
\* per anomaly over any sequence of resolveAnomaly calls: a call on an
\* anomaly that is already resolved, whose restoration was made when it
\* became so, restores nothing more: the score and the event log stay.
C26_RestoredAtMostOnce ==
    [][ (/\ last'.op = "resolveAnomaly"
         /\ last'.key \in Rows
         /\ anomalies[last'.key].status = "resolved")
        => score' = score /\ events' = events ]_vars

\* C27: every delta handed to updateSafetyScore and every score it stores is
\* a whole number of points, after any sequence of detection passes,
\* geofence checks and resolutions over anomalies of any severity.
C27_WholePoints(x) == x % UnitsPerPoint = 0
C27_IntegerDeltasAndScores ==
    [][ /\ \A k \in 1..Len(last'.calls) : C27_WholePoints(last'.calls[k].delta)
        /\ \A dtid \in DOMAIN score' : C27_WholePoints(score'[dtid])
        /\ \A k \in 1..Len(events') :
             /\ C27_WholePoints(events'[k].delta)
             /\ C27_WholePoints(events'[k].resulting_score) ]_vars

\* C28: in resolveAnomaly the restoration comes after the status update: when
\* the read of the anomaly or the write of its new status fails, the call
\* ends in a server error without a ledger call, and anomalies, scores and
\* events are unchanged.
C28_NoRestoreAfterFailure ==
    [][ (/\ last'.op = "resolveAnomaly"
         /\ last'.fail \in {"anomaly_select", "anomaly_update"}
         /\ last'.http # 400)
        => /\ last'.http = 500 /\ last'.calls = <<>>
           /\ anomalies' = anomalies /\ score' = score /\ events' = events ]_vars
\* The status update of an active anomaly of a subject with a profile has
\* failed and the call has answered 500.
C28_Witness ==
    /\ last.op = "resolveAnomaly" /\ last.fail = "anomaly_update"
    /\ last.http = 500
    /\ last.key \in Rows /\ isActive(anomalies[last.key])
    /\ anomalies[last.key].dtid \in DOMAIN score

\* C29: in TouristIDRegistry, after any sequence of calls by any callers,
\* dtidList has no duplicates, dtidRegistered[d] is true exactly for the
\* DTIDs in dtidList (so totalDTIDs is the number of registered DTIDs), a
\* registered DTID is never unregistered, and a registerDTID call by a
\* non-owner or for a registered DTID reverts and leaves the state unchanged.
C29_Listed(list) == {list[i] : i \in 1..Len(list)}
C29_RegistryConsistent ==
    [][ /\ \A i, j \in 1..Len(dtidList') : dtidList'[i] = dtidList'[j] => i = j
        /\ \A d \in Dtids : dtidRegistered'[d] = (d \in C29_Listed(dtidList'))
        /\ totalDTIDs([dtidList |-> dtidList'])
             = Cardinality({d \in Dtids : dtidRegistered'[d]})
        /\ \A d \in Dtids : dtidRegistered[d] => dtidRegistered'[d]
        /\ (/\ tx'.fn = "registerDTID"
            /\ tx'.sender # owner \/ dtidRegistered[tx'.arg[1]])
           => /\ tx'.reverted
              /\ owner' = owner /\ registry' = registry
              /\ dtidRegistered' = dtidRegistered /\ dtidList' = dtidList
        /\ (/\ tx'.fn = "registerDTID" /\ tx'.sender = owner
            /\ ~dtidRegistered[tx'.arg[1]])
           => ~tx'.reverted /\ dtidList' = Append(dtidList, tx'.arg[1]) ]_vars
\* The owner's registration of a DTID already in a list of two has reverted.
C29_Witness ==
    /\ tx.fn = "registerDTID" /\ tx.reverted /\ tx.sender = owner
    /\ Len(dtidList) = 2 /\ tx.arg[1] \in C29_Listed(dtidList)

\* C30: each OTP issued by /register or /resend-otp is verified successfully
\* at most once over any sequence of /verify-otp requests: a request is
\* accepted only for the entry stored for the number, with its code and
\* before its expiry, and removes it (also when signing the token fails); an expired entry and an entry at its
\* third wrong attempt are removed by the request that carries a code; with
\* no entry the request fails; and no entry is ever accepted twice.
C30_OtpVerifiedAtMostOnce ==
    [][ /\ \A i, j \in 1..Len(otpVerified') :
             otpVerified'[i].serial = otpVerified'[j].serial => i = j
        /\ VerifyOtp =>
             LET mobile == otpLast'.mobile
                 stored == mobile \in DOMAIN otpStorage
                 matches == /\ stored /\ otpLast'.otp = otpStorage[mobile].otp
                            /\ otpNow <= otpStorage[mobile].expiry
             IN  IF matches
                 THEN /\ mobile \notin DOMAIN otpStorage'
                      /\ \/ /\ otpLast'.http = 200
                            /\ otpVerified' = Append(otpVerified,
                                 [serial |-> otpStorage[mobile].serial,
                                  mobile |-> mobile])
                         \/ /\ otpLast'.http = 500
                            /\ otpVerified' = otpVerified
                 ELSE /\ otpLast'.http = 400
                      /\ otpVerified' = otpVerified
                      /\ (/\ stored /\ otpLast'.otp # ""
                          /\ \/ otpNow > otpStorage[mobile].expiry
                             \/ otpStorage[mobile].attempts + 1 >= MaxAttempts)
                           => mobile \notin DOMAIN otpStorage' ]_vars
\* A /verify-otp with a code has failed for a number whose OTP was accepted
\* before and has no entry left.
C30_Witness ==
    /\ otpLast.op = "verify-otp" /\ otpLast.http = 400 /\ otpLast.otp # ""
    /\ otpLast.mobile \notin DOMAIN otpStorage
    /\ \E i \in 1..Len(otpVerified) : otpVerified[i].mobile = otpLast.mobile

====
